---- MODULE Spec2Model ----
(***************************************************************************)
(* Neural style transfer (Chapter12_generative-dl/part03) and the model     *)
(* snippets of the conclusions (Chapter14_conclusions).                    *)
(*                                                                         *)
(* Numbers.  The notebook computes on float32 tensors.  Here every number  *)
(* is an integer.  Pixel values are stored multiplied by Scale (1000), so  *)
(* that the ImageNet means 103.939, 116.779 and 123.68 are the integers    *)
(* 103939, 116779 and 123680; sums, differences and products are exact.    *)
(* A tensor of shape (h, w, c) is a tuple of h rows, each a tuple of w     *)
(* pixels, each a tuple of c channel values; the leading batch axis of     *)
(* size 1 that the notebook carries on its images is left out.             *)
(*                                                                         *)
(* Three specifications:                                                   *)
(*   SpecFn  draws the arguments of the loss and image functions from      *)
(*           bounded sets and applies one function to them;                *)
(*   Spec    is the run of the notebook: the three images are loaded and   *)
(*           the optimization loop of cell 8 is executed;                  *)
(*   SpecSnippets  runs one model-definition cell of the notebook          *)
(*           Chapter14_conclusions/conclusions.ipynb.                      *)
(***************************************************************************)
EXTENDS Integers, Sequences, FiniteSets, TLC

VARIABLES
    \* ---- the notebook's globals
    img_width,              \* width of the generated picture (cell 1)
    base_image,             \* preprocessed content image
    style_reference_image,  \* preprocessed style image
    combination_image,      \* the tf.Variable being optimized
    opt_iterations,         \* optimizer.iterations: optimizer steps applied so far
    i,                      \* loop variable of "for i in range(1, iterations + 1)"
    pc,                     \* position inside the loop body
    loss,                   \* value returned by the last compute_loss_and_grads
    grads,                  \* gradient returned by the last compute_loss_and_grads
    printed,                \* lines printed so far: <<i, loss>>
    files,                  \* names of the files written so far, in the order written
    saved_img,              \* content of the file written last
    regime,                 \* how the gradient of this run behaves (see Gradient)
    \* ---- one application of a function to drawn arguments (SpecFn)
    fn, arg1, arg2, out

vars == <<img_width, base_image, style_reference_image, combination_image,
          opt_iterations, i, pc, loss, grads, printed, files, saved_img, regime,
          fn, arg1, arg2, out>>

runVars == <<base_image, style_reference_image, combination_image,
             opt_iterations, i, pc, loss, grads, printed, files, saved_img, regime>>

fnVars == <<fn, arg1, arg2, out>>

-----------------------------------------------------------------------------
(* Bounds of the model and constants of the program *)

\* Height of the generated picture.  The notebook uses 400; the model scales
\* it down so that tensors can be enumerated.
img_height == 2

\* Largest number of channels of a drawn activation tensor.
MaxChannels == 2

\* A drawn tensor is a flat background with at most MaxPatch cells changed.
MaxPatch == 1

\* Fixed-point scale of pixel values: 1.0 is stored as 1000.
Scale == 1000

\* Cell 8: iterations = 4000, and the "i % 100" of the snapshot test.
iterations == 4000

SnapshotEvery == 100

-----------------------------------------------------------------------------
(* Tensors *)

Height(x) == Len(x)

Width(x) == Len(x[1])

Channels(x) == Len(x[1][1])

Cells(h, w, c) == (1..h) \X (1..w) \X (1..c)

\* The same sequence, matrix or tensor, with every element computed once (a
\* function written [n \in 1..m |-> e] is otherwise evaluated again on each
\* access).
Tuple1(s) == s \o <<>>

Tuple2(m) == Tuple1([a \in 1..Len(m) |-> Tuple1(m[a])])

Tuple3(x) == Tuple1([r \in 1..Len(x) |-> Tuple2(x[r])])

\* The tensor of shape (h, w, c) whose cell q holds f[q].
Tensor(h, w, c, f) ==
    Tuple3([r \in 1..h |-> [s \in 1..w |-> [k \in 1..c |-> f[<<r, s, k>>]]]])

\* Background b everywhere, except value v in the cells of S.
Patch(h, w, c, b, S, v) ==
    Tensor(h, w, c, [q \in Cells(h, w, c) |-> IF q \in S THEN v ELSE b])

Flat(h, w, c, b) == Patch(h, w, c, b, {}, b)

\* The subsets of U with at most n elements.
RECURSIVE SmallSubsets(_, _)
SmallSubsets(U, n) ==
    IF n = 0 THEN {{}}
    ELSE LET smaller == SmallSubsets(U, n - 1)
         IN  smaller \cup {S \cup {u} : S \in smaller, u \in U}

RECURSIVE SumSeq(_)
SumSeq(s) == IF s = <<>> THEN 0 ELSE Head(s) + SumSeq(Tail(s))

\* Row-major list of the elements of a tensor of rank 3 (C order, last axis
\* fastest), as tf.reshape and tf.reduce_sum traverse it.
Flatten(x) ==
    LET h == Height(x)
        w == Width(x)
        c == Channels(x)
    IN  Tuple1([n \in 1..(h * w * c) |->
            x[((n - 1) \div (w * c)) + 1]
             [(((n - 1) \div c) % w) + 1]
             [((n - 1) % c) + 1]])

\* tf.reduce_sum of a tensor of rank 3.
reduce_sum(x) == SumSeq(Flatten(x))

\* tf.square, element-wise on a number.
square(v) == v * v

\* Element-wise difference of two tensors of the same shape.
Minus(x, y) ==
    Tuple3([r \in 1..Height(x) |-> [s \in 1..Width(x) |-> [k \in 1..Channels(x) |->
        x[r][s][k] - y[r][s][k]]]])

Square3(x) ==
    Tuple3([r \in 1..Height(x) |-> [s \in 1..Width(x) |-> [k \in 1..Channels(x) |->
        square(x[r][s][k])]]])

\* Sum of the entries of a matrix (tf.reduce_sum of a tensor of rank 2).
RECURSIVE SumRows(_)
SumRows(m) == IF m = <<>> THEN 0 ELSE SumSeq(Head(m)) + SumRows(Tail(m))

-----------------------------------------------------------------------------
(* Cell 4: content loss *)

\* tf.reduce_sum(tf.square(combination_img - base_img)), without the square.
content_loss_unsquared(base_img, combination_img) ==
    reduce_sum(Minus(combination_img, base_img))

content_loss(base_img, combination_img) ==
    reduce_sum(Square3(Minus(combination_img, base_img)))

-----------------------------------------------------------------------------
(* Cell 5: Gram matrix and style loss *)

\* tf.transpose(x, (2, 0, 1)): shape (h, w, c) becomes (c, h, w).
transpose_201(x) ==
    Tuple3([k \in 1..Channels(x) |-> [r \in 1..Height(x) |-> [s \in 1..Width(x) |->
        x[r][s][k]]]])

\* tf.reshape(x, (rows, -1)) of the flattened tensor.
reshape_rows(flat, rows) ==
    LET cols == Len(flat) \div rows
    IN  Tuple2([a \in 1..rows |-> [p \in 1..cols |-> flat[(a - 1) * cols + p]]])

\* tf.matmul(features, tf.transpose(features)).
matmul_transposed(features) ==
    Tuple2([a \in 1..Len(features) |-> [b \in 1..Len(features) |->
        SumSeq(Tuple1([p \in 1..Len(features[a]) |->
            features[a][p] * features[b][p]]))]])

\* gram_matrix with the tf.transpose of its first line left out: the reshape
\* then cuts the (h, w, c) data into c rows that mix channels and positions.
gram_matrix_no_transpose(x) ==
    matmul_transposed(reshape_rows(Flatten(x), Channels(x)))

gram_matrix(x) ==
    LET xt       == transpose_201(x)
        features == reshape_rows(Flatten(xt), Len(xt))
    IN  matmul_transposed(features)

\* tf.reduce_sum(tf.square(S - C)) of two matrices of the same shape.
SumSquaredDiff(S, C) ==
    SumRows(Tuple2([a \in 1..Len(S) |-> [b \in 1..Len(S[a]) |->
        square(S[a][b] - C[a][b])]]))

\* The divisor 4.0 * (channels ** 2) * (size ** 2) of style_loss, with
\* channels = 3 and size = img_height * img_width as the function sets them.
style_divisor == 4 * (3 * 3) * ((img_height * img_width) * (img_height * img_width))

\* style_loss dividing by 4 * channels^2 * size^2 with the channel count and
\* the height * width of the tensors it is given.
style_loss_layer_divisor(style_img, combination_img) ==
    LET S == gram_matrix(style_img)
        C == gram_matrix(combination_img)
        channels == Channels(style_img)
        size == Height(style_img) * Width(style_img)
    IN  SumSquaredDiff(S, C) \div (4 * (channels * channels) * (size * size))

\* style_loss comparing the Gram matrix of the combination with its negation
\* (S + C where the code has S - C).
style_loss_sign_slip(style_img, combination_img) ==
    LET S == gram_matrix(style_img)
        C == gram_matrix(combination_img)
    IN  SumRows(Tuple2([a \in 1..Len(S) |-> [b \in 1..Len(S[a]) |->
            square(S[a][b] + C[a][b])]])) \div style_divisor

\* The float division is the integer quotient.
style_loss(style_img, combination_img) ==
    LET S == gram_matrix(style_img)
        C == gram_matrix(combination_img)
    IN  SumSquaredDiff(S, C) \div style_divisor

-----------------------------------------------------------------------------
(* Cell 6: total variation loss *)

Min(a, b) == IF a <= b THEN a ELSE b

Max(a, b) == IF a >= b THEN a ELSE b

\* x[:, r1:r2, s1:s2, :] with 1-based inclusive bounds, clamped to the shape
\* of x as Python slices are.
Slice(x, r1, r2, s1, s2) ==
    LET rr == Min(r2, Height(x))
        ss == Min(s2, Width(x))
    IN  Tuple2([r \in 1..(rr - r1 + 1) |-> [s \in 1..(ss - s1 + 1) |->
            x[r1 + r - 1][s1 + s - 1]]])

\* Largest r with r^4 <= v, for 0 <= v < 2^31 (215^4 is the largest fourth
\* power below 2^31).
RECURSIVE Root4Search(_, _, _)
Root4Search(v, lo, hi) ==
    IF lo >= hi THEN lo
    ELSE LET mid == (lo + hi + 1) \div 2
         IN  IF mid * mid * mid * mid <= v
             THEN Root4Search(v, mid, hi)
             ELSE Root4Search(v, lo, mid - 1)

Root4(v) == Root4Search(v, 0, 215)

\* tf.pow(v, 1.25) for v >= 0: v * v^(1/4), the fourth root cut to an integer.
\* It is 0 at 0, positive above 0 and non-decreasing, as v^1.25 is.
pow_1_25(v) == v * Root4(v)

\* total_variation_loss taking both differences over the whole image: the
\* vertical ones of every row but the last, the horizontal ones of every
\* column but the last, each summed on its own.
total_variation_loss_full(x) ==
    LET a == Square3(Minus(Slice(x, 1, Height(x) - 1, 1, Width(x)),
                           Slice(x, 2, Height(x), 1, Width(x))))
        b == Square3(Minus(Slice(x, 1, Height(x), 1, Width(x) - 1),
                           Slice(x, 1, Height(x), 2, Width(x))))
        aa == Flatten(a)
        bb == Flatten(b)
    IN  SumSeq(Tuple1([n \in 1..Len(aa) |-> pow_1_25(aa[n])]))
        + SumSeq(Tuple1([n \in 1..Len(bb) |-> pow_1_25(bb[n])]))

total_variation_loss(x) ==
    LET a == Square3(Minus(Slice(x, 1, img_height - 1, 1, img_width - 1),
                           Slice(x, 2, Height(x), 1, img_width - 1)))
        b == Square3(Minus(Slice(x, 1, img_height - 1, 1, img_width - 1),
                           Slice(x, 1, img_height - 1, 2, Width(x))))
        ab == Flatten(a)
        bb == Flatten(b)
    IN  SumSeq(Tuple1([n \in 1..Len(ab) |-> pow_1_25(ab[n] + bb[n])]))

-----------------------------------------------------------------------------
(* Cells 1 and 2: image files, preprocessing and deprocessing *)

\* float32 not-a-number, the value of every cell of a diverged image.  No
\* finite value of the model comes near it.
NaN == -2000000000

\* round(n / d) as Python 3 rounds a float: to the nearest integer, a tie to
\* the even one (n >= 0, d > 0).
Round(n, d) ==
    LET q == n \div d
        r == n % d
    IN  IF 2 * r < d THEN q
        ELSE IF 2 * r > d THEN q + 1
        ELSE IF q % 2 = 0 THEN q ELSE q + 1

\* img_width = round(original_width * img_height / original_height), for an
\* image file given as its (original_height, original_width, 3) RGB array.
ImgWidth(file) == Round(Width(file) * img_height, Height(file))

\* keras.utils.load_img(path) without target_size: the file as it is.
load_img_no_resize(file, h, w) == file

\* keras.utils.load_img(path, target_size=(h, w)): the file resized with the
\* default nearest-neighbour interpolation, which reads the source pixel
\* under the centre of each target pixel.
load_img(file, h, w) ==
    Tuple2([r \in 1..h |-> [s \in 1..w |->
        file[(((2 * r - 1) * Height(file)) \div (2 * h)) + 1]
            [(((2 * s - 1) * Width(file)) \div (2 * w)) + 1]]])

\* The three ImageNet means that deprocess_image adds to channels 0, 1, 2
\* (103.939, 116.779, 123.68), times Scale.
MeanOffset == <<103939, 116779, 123680>>

\* keras.applications.vgg19.preprocess_input: RGB to BGR, then the mean of
\* each channel subtracted.
preprocess_input(img) ==
    Tuple3([r \in 1..Height(img) |-> [s \in 1..Width(img) |-> [k \in 1..3 |->
        img[r][s][4 - k] * Scale - MeanOffset[k]]]])

preprocess_image(file) ==
    preprocess_input(load_img(file, img_height, img_width))

\* np.clip(v, lo, hi) without the upper limit.
np_clip_no_upper(v, lo, hi) ==
    IF v = NaN THEN NaN ELSE Max(v, lo)

\* np.clip(v, lo, hi) on one element; NaN stays NaN.
np_clip(v, lo, hi) ==
    IF v = NaN THEN NaN ELSE Min(Max(v, lo), hi)

\* .astype("uint8") on one element of a float array: the fraction is cut off.
\* Casting NaN is undefined in C; nan_byte is the byte the build produces.
astype_uint8(v, nan_byte) ==
    IF v = NaN THEN nan_byte ELSE v \div Scale

\* The bytes a cast of NaN to uint8 is taken to produce.
NaNBytes == {0, 255}

\* deprocess_image reading the channels in the order they are stored (the
\* img[:, :, ::-1] left out).
deprocess_image_no_reverse(img, nan_byte) ==
    Tuple3([r \in 1..img_height |-> [s \in 1..img_width |-> [k \in 1..3 |->
        astype_uint8(
            np_clip(IF img[r][s][k] = NaN THEN NaN
                    ELSE img[r][s][k] + MeanOffset[k], 0, 255 * Scale),
            nan_byte)]]])

\* deprocess_image(img): the means added to channels 0, 1, 2, the channel
\* axis reversed, the values clipped to 0..255 and cast to uint8.
deprocess_image(img, nan_byte) ==
    LET shifted == Tuple3([r \in 1..img_height |-> [s \in 1..img_width |-> [k \in 1..3 |->
                       IF img[r][s][k] = NaN THEN NaN
                       ELSE img[r][s][k] + MeanOffset[k]]]])
        rgb     == Tuple3([r \in 1..img_height |-> [s \in 1..img_width |-> [k \in 1..3 |->
                       shifted[r][s][4 - k]]]])
    IN  Tuple3([r \in 1..img_height |-> [s \in 1..img_width |-> [k \in 1..3 |->
            astype_uint8(np_clip(rgb[r][s][k], 0, 255 * Scale), nan_byte)]]])

\* What deprocess_image leaves in the array it is given: img.reshape returns
\* a view of that array, and img[:, :, k] += mean writes the means into it;
\* the reversal, np.clip and astype make new arrays.
deprocess_image_argument(img) ==
    Tuple3([r \in 1..img_height |-> [s \in 1..img_width |-> [k \in 1..3 |->
        IF img[r][s][k] = NaN THEN NaN ELSE img[r][s][k] + MeanOffset[k]]]])

\* variable.numpy() handing out the buffer of the variable itself.
numpy_view(variable) == [array |-> variable, shares_memory |-> TRUE]

\* variable.numpy(): the value of the variable in an array of its own.
numpy(variable) == [array |-> variable, shares_memory |-> FALSE]

-----------------------------------------------------------------------------
(* Cell 3: the feature extractor *)

\* Cell 7: the layers used for the style loss and for the content loss.
style_layer_names ==
    <<"block1_conv1", "block2_conv1", "block3_conv1", "block4_conv1", "block5_conv1">>

content_layer_name == "block5_conv2"

LayerIndex(name) ==
    IF name = content_layer_name THEN 6
    ELSE CHOOSE n \in 1..5 : style_layer_names[n] = name

\* The pretrained VGG19 is not part of the notebook.  It is stood in for by a
\* network with one strided 1x1 convolution and a ReLU per layer.  Layer n
\* lies in block LayerBlock(n); as the pooling of VGG19 does, every block
\* halves the height and the width of the one before (never below 1).  Layer
\* n has LayerChannels(n) output channels, its weights are -1, 0 or 1 and its
\* output is divided by FeatDiv.  Like VGG19 the network treats the images of
\* a batch independently of each other.
LayerBlock(n) == IF n = 6 THEN 5 ELSE n

RECURSIVE LayerStride(_)
LayerStride(b) == IF b = 1 THEN 1 ELSE 2 * LayerStride(b - 1)

LayerSize(d, n) == Max(1, d \div LayerStride(LayerBlock(n)))

LayerChannels(n) == 1 + (n % 2)

LayerWeight(n, ch, k) == ((n * ch + k * k) % 3) - 1

FeatDiv == 20

LayerOutput(n, img) ==
    LET stride == LayerStride(LayerBlock(n))
        px(r, s) == img[(r - 1) * stride + 1][(s - 1) * stride + 1]
    IN  Tuple3([r \in 1..LayerSize(Height(img), n) |->
                [s \in 1..LayerSize(Width(img), n) |->
                 [ch \in 1..LayerChannels(n) |->
                    Max(0, LayerWeight(n, ch, 1) * px(r, s)[1]
                           + LayerWeight(n, ch, 2) * px(r, s)[2]
                           + LayerWeight(n, ch, 3) * px(r, s)[3])
                        \div FeatDiv]]])

\* feature_extractor(input_tensor): for every layer name, the activations of
\* every image of the batch.
feature_extractor(input_tensor) ==
    [name \in {style_layer_names[n] : n \in 1..5} \cup {content_layer_name} |->
        [b \in 1..Len(input_tensor) |-> LayerOutput(LayerIndex(name), input_tensor[b])]]

-----------------------------------------------------------------------------
(* Cell 7: the loss that is minimized *)

\* The three weights, in units of 10^-9: 1e-6, 1e-6 and 2.5e-8.
total_variation_weight == 1000

style_weight == 1000

content_weight == 25

\* weight * value for a weight in units of 10^-9, in units of 10^-6 (the
\* fraction below 10^-6 is cut off); computed in two parts so that no
\* intermediate product leaves 32 bits.
Weighted(weight, value) ==
    (value \div 1000) * weight + ((value % 1000) * weight) \div 1000

HasNaN(img) ==
    \E r \in 1..Height(img) : \E s \in 1..Width(img) : \E k \in 1..Channels(img) :
        img[r][s][k] = NaN

\* The content term reading batch entry 1 (the style image) where the code
\* reads entry 0.
ContentTerm_style_entry(features) ==
    Weighted(content_weight,
             content_loss(features[content_layer_name][2],
                          features[content_layer_name][3]))

\* The content term of compute_loss: batch entries 0 and 2 of the content layer.
ContentTerm(features) ==
    Weighted(content_weight,
             content_loss(features[content_layer_name][1],
                          features[content_layer_name][3]))

\* The style term of one layer with the whole style_weight (the division by
\* len(style_layer_names) left out).
StyleTerm_undivided(features, layer_name) ==
    Weighted(style_weight,
             style_loss(features[layer_name][2], features[layer_name][3]))

\* The style term of one layer: batch entries 1 and 2 of that layer.
StyleTerm(features, layer_name) ==
    Weighted(style_weight \div Len(style_layer_names),
             style_loss(features[layer_name][2], features[layer_name][3]))

\* The sum of the style terms over style_layer_names, in the order of the loop.
RECURSIVE StyleTerms(_, _)
StyleTerms(features, n) ==
    IF n = 0 THEN 0
    ELSE StyleTerms(features, n - 1) + StyleTerm(features, style_layer_names[n])

TotalVariationTerm(image) ==
    Weighted(total_variation_weight, total_variation_loss(image))

\* The terms that compute_loss adds up, each by itself: the content term, the
\* style term of every style layer, the total variation term.
LossTerms(combination, base, style_reference) ==
    LET input_tensor == <<base, style_reference, combination>>
        features     == feature_extractor(input_tensor)
    IN  <<ContentTerm(features),
          Tuple1([n \in 1..Len(style_layer_names) |->
                     StyleTerm(features, style_layer_names[n])]),
          TotalVariationTerm(combination)>>

\* compute_loss with the content term subtracted where the code adds it.
compute_loss_content_subtracted(combination, base, style_reference) ==
    IF HasNaN(combination) THEN NaN
    ELSE LET input_tensor == <<base, style_reference, combination>>
             features     == feature_extractor(input_tensor)
         IN  0 - ContentTerm(features)
               + StyleTerms(features, Len(style_layer_names))
               + TotalVariationTerm(combination)

\* compute_loss, in units of 10^-6.  Every term reads the combination image,
\* so the loss of an image that holds NaN is NaN.
compute_loss(combination, base, style_reference) ==
    IF HasNaN(combination) THEN NaN
    ELSE LET input_tensor == <<base, style_reference, combination>>
             features     == feature_extractor(input_tensor)
         IN  0 + ContentTerm(features)
               + StyleTerms(features, Len(style_layer_names))
               + TotalVariationTerm(combination)

-----------------------------------------------------------------------------
(* Cell 8: gradient, optimizer and loop *)

Sign(v) == IF v > 0 THEN 1 ELSE IF v < 0 THEN -1 ELSE 0

\* tape.gradient(loss, combination_image) differentiates through the
\* pretrained network, which the notebook does not contain.  A run has one of
\* three regimes:
\*   "stationary"  the gradient is zero (the image is at a minimum);
\*   "descent"     each cell's gradient is 0.001 times the sign of its
\*                 distance from the style image, so the image moves towards
\*                 the style image and then oscillates around it;
\*   "diverged"    the gradient is not finite.
\* The gradient of a loss that is NaN is NaN.
Regimes == {"stationary", "descent", "diverged"}

Gradient(r, combination, style_reference) ==
    Tuple3([row \in 1..Height(combination) |-> [s \in 1..Width(combination) |->
      [k \in 1..3 |->
        IF combination[row][s][k] = NaN \/ r = "diverged" THEN NaN
        ELSE IF r = "descent"
             THEN Sign(combination[row][s][k] - style_reference[row][s][k])
             ELSE 0]]])

\* compute_loss_and_grads: the loss and its gradient with respect to the
\* combination image.
compute_loss_and_grads(combination, base, style_reference) ==
    <<compute_loss(combination, base, style_reference),
      Gradient(regime, combination, style_reference)>>

\* ExponentialDecay(initial_learning_rate=100.0, decay_steps=100,
\* decay_rate=0.96): the rate at a step is 100 * 0.96^(step / 100), here
\* times 1000.
initial_learning_rate == 100000

decay_steps == 100

\* 0.96^q times 10^7.
RECURSIVE DecayPower(_)
DecayPower(q) == IF q = 0 THEN 10000000 ELSE (DecayPower(q - 1) * 96) \div 100

\* 0.96^(r / 100) times 10^8 for 0 <= r < 100: r factors 0.96^(1/100), which
\* is 1 - 1/2450 to seven digits.
DecayOneStep(f) == f - (f + 1225) \div 2450

\* f after n more of these factors.  (The first test reads f before the
\* recursion goes on, which keeps the evaluation shallow.)
RECURSIVE DecaySteps(_, _)
DecaySteps(f, n) ==
    IF f < 0 \/ n = 0 THEN f ELSE DecaySteps(DecayOneStep(f), n - 1)

RECURSIVE DecayTens(_)
DecayTens(a) == IF a = 0 THEN 100000000 ELSE DecaySteps(DecayTens(a - 1), 10)

DecayFraction(r) == DecaySteps(DecayTens(r \div 10), r % 10)

\* The two factors for every step of the run, computed once.
DecayPowers == Tuple1([q \in 1..(iterations \div decay_steps + 1) |-> DecayPower(q - 1)])

DecayFractions == Tuple1([r \in 1..decay_steps |-> DecayFraction(r - 1)])

\* ExponentialDecay with decay_steps left out of the exponent: the rate at a
\* step is 100 * 0.96^step.
LearningRate_decay_per_step(step) == DecayPower(step) \div 100

LearningRate(step) ==
    ((DecayPowers[(step \div decay_steps) + 1] \div 1000)
        * (DecayFractions[(step % decay_steps) + 1] \div 1000)) \div 10000

\* SGD: the variable minus learning rate times gradient, cell by cell.
SgdUpdate(variable, gradient, rate) ==
    Tuple3([r \in 1..Height(variable) |-> [s \in 1..Width(variable) |-> [k \in 1..3 |->
        IF variable[r][s][k] = NaN \/ gradient[r][s][k] = NaN THEN NaN
        ELSE variable[r][s][k] - (rate * gradient[r][s][k]) \div 1000]]])

\* optimizer.apply_gradients when base_image is not a copy but the very
\* buffer of the variable: what is written to combination_image shows in
\* base_image too.
apply_gradients_shared_buffer(grads_and_vars, images, rate) ==
    [name \in DOMAIN images |->
        IF name = "style_reference_image" THEN images[name]
        ELSE SgdUpdate(images["combination_image"], grads_and_vars[1][1], rate)]

\* optimizer.apply_gradients(grads_and_vars) with the SGD optimizer: every
\* variable named in a (gradient, variable) pair of the list is updated with
\* its gradient; what is not in the list is left as it is.  images maps the
\* names of the three images to their values.
apply_gradients_to_all(grads_and_vars, images, rate) ==
    [name \in DOMAIN images |-> SgdUpdate(images[name], grads_and_vars[1][1], rate)]

apply_gradients(grads_and_vars, images, rate) ==
    [name \in DOMAIN images |->
        IF \E p \in 1..Len(grads_and_vars) : grads_and_vars[p][2] = name
        THEN LET p == CHOOSE p \in 1..Len(grads_and_vars) : grads_and_vars[p][2] = name
             IN  SgdUpdate(images[name], grads_and_vars[p][1], rate)
        ELSE images[name]]

\* fname = f"combination_image_at_iteration_{i}.png", with the number left
\* out of the name.
fname_without_iteration(n) == <<"combination_image_at_iteration_", ".png">>

\* fname = f"combination_image_at_iteration_{i}.png": the pieces of the name.
fname(n) == <<"combination_image_at_iteration_", n, ".png">>

\* The image files: (original_height, original_width, 3) arrays of RGB bytes.
Dark == <<123, 116, 103>>

Light == <<124, 117, 104>>

ContentFiles ==
    {[r \in 1..2 |-> [s \in 1..3 |-> IF r = 1 /\ s = 2 THEN Light ELSE Dark]],
     [r \in 1..4 |-> [s \in 1..5 |-> IF r <= 2 /\ s <= 2 THEN Dark ELSE Light]]}

\* (The style file differs from both content files in its top-left pixel,
\* which is the one the content layer of the stand-in network reads.)
StyleFiles ==
    {[r \in 1..3 |-> [s \in 1..3 |-> IF r = s THEN Light ELSE Dark]]}

\* The start of the run with the combination image made from the style
\* file in place of the content file.
Init_from_style_image ==
    /\ \E content \in ContentFiles : \E style \in StyleFiles :
          /\ img_width = ImgWidth(content)
          /\ base_image = preprocess_image(content)
          /\ style_reference_image = preprocess_image(style)
          /\ combination_image = preprocess_image(style)
    /\ regime \in Regimes
    /\ opt_iterations = 0
    /\ i = 1
    /\ pc = "compute"
    /\ loss = 0
    /\ grads = <<>>
    /\ printed = <<>>
    /\ files = <<>>
    /\ saved_img = <<>>
    /\ fn = "run"
    /\ arg1 = <<>>
    /\ arg2 = <<>>
    /\ out = 0

Init ==
    /\ \E content \in ContentFiles : \E style \in StyleFiles :
          /\ img_width = ImgWidth(content)
          /\ base_image = preprocess_image(content)
          /\ style_reference_image = preprocess_image(style)
          /\ combination_image = preprocess_image(content)
    /\ regime \in Regimes
    /\ opt_iterations = 0
    /\ i = 1
    /\ pc = "compute"
    /\ loss = 0
    /\ grads = <<>>
    /\ printed = <<>>
    /\ files = <<>>
    /\ saved_img = <<>>
    \* no function is applied on its own
    /\ fn = "run"
    /\ arg1 = <<>>
    /\ arg2 = <<>>
    /\ out = 0

\* The end of the loop body with an early stop: the loop is left as soon as
\* the loss is not finite.
LoopAdvanceWhileFinite ==
    IF i < iterations /\ loss # NaN
    THEN /\ i' = i + 1
         /\ pc' = "compute"
    ELSE /\ i' = i
         /\ pc' = "done"

\* The end of the loop body: the next i of range(1, iterations + 1), or the
\* end of the loop.
LoopAdvance ==
    IF i < iterations
    THEN /\ i' = i + 1
         /\ pc' = "compute"
    ELSE /\ i' = i
         /\ pc' = "done"

\* loss, grads = compute_loss_and_grads(combination_image, base_image,
\*                                      style_reference_image)
ComputeLossAndGrads ==
    /\ pc = "compute"
    /\ LET result == compute_loss_and_grads(combination_image, base_image,
                                            style_reference_image)
       IN  /\ loss' = result[1]
           /\ grads' = result[2]
    /\ pc' = "apply"
    /\ UNCHANGED <<img_width, base_image, style_reference_image, combination_image,
                   opt_iterations, i, printed, files, saved_img, regime>>
    /\ UNCHANGED fnVars

\* optimizer.apply_gradients([(grads, combination_image)])
ApplyGradients ==
    /\ pc = "apply"
    /\ LET updated == apply_gradients(
                          <<<<grads, "combination_image">>>>,
                          [base_image            |-> base_image,
                           style_reference_image |-> style_reference_image,
                           combination_image     |-> combination_image],
                          LearningRate(opt_iterations))
       IN  /\ combination_image' = updated.combination_image
           /\ base_image' = updated.base_image
           /\ style_reference_image' = updated.style_reference_image
    /\ opt_iterations' = opt_iterations + 1
    /\ pc' = "report"
    /\ UNCHANGED <<img_width, i, loss, grads, printed, files, saved_img, regime>>
    /\ UNCHANGED fnVars

\* The snapshot printing the loss of the image it saves (compute_loss called
\* again after the optimizer step) in place of the value of the variable loss.
Snapshot_loss_after_step ==
    /\ pc = "report"
    /\ i % SnapshotEvery = 0
    /\ printed' = Append(printed, <<i, compute_loss(combination_image, base_image,
                                                    style_reference_image)>>)
    /\ \E nan_byte \in NaNBytes :
           saved_img' = deprocess_image(combination_image, nan_byte)
    /\ files' = Append(files, fname(i))
    /\ LoopAdvance
    /\ UNCHANGED <<img_width, base_image, style_reference_image, combination_image,
                   opt_iterations, loss, grads, regime>>
    /\ UNCHANGED fnVars

\* if i % 100 == 0: print the loss, deprocess a copy of the combination image
\* (combination_image.numpy()) and save it under the name of i.
Snapshot ==
    /\ pc = "report"
    /\ i % SnapshotEvery = 0
    /\ printed' = Append(printed, <<i, loss>>)
    /\ LET buffer == numpy(combination_image)
       IN  /\ \E nan_byte \in NaNBytes :
                  saved_img' = deprocess_image(buffer.array, nan_byte)
           \* what the call has written into its argument
           /\ combination_image' = IF buffer.shares_memory
                                    THEN deprocess_image_argument(buffer.array)
                                    ELSE combination_image
    /\ files' = Append(files, fname(i))
    /\ LoopAdvance
    /\ UNCHANGED <<img_width, base_image, style_reference_image,
                   opt_iterations, loss, grads, regime>>
    /\ UNCHANGED fnVars

\* if i % 100 == 0 is false: nothing is printed or written.
NoSnapshot ==
    /\ pc = "report"
    /\ i % SnapshotEvery # 0
    /\ LoopAdvance
    /\ UNCHANGED <<img_width, base_image, style_reference_image, combination_image,
                   opt_iterations, loss, grads, printed, files, saved_img, regime>>
    /\ UNCHANGED fnVars

Next ==
    \/ ComputeLossAndGrads
    \/ ApplyGradients
    \/ Snapshot
    \/ NoSnapshot

Spec == Init /\ [][Next]_vars

-----------------------------------------------------------------------------
(* SpecFn: one function applied to drawn arguments *)

\* Widths of the drawn tensors.
FnWidths == {2, 3}

\* Values of the cells of a drawn activation tensor.
ActVals == {0, 6}

\* Values of the cells of a drawn image array: far below and just below the
\* value that deprocessing maps to 0, inside the range with a fraction, just
\* above the value it maps to 255, and far above.
ArrayVals == {-400000, -123681, 1500, 151062, 400000}

\* Activation tensors of shape (img_height, w, c).
Activations(w, c) ==
    {Patch(img_height, w, c, b, S, v) :
        b \in ActVals, v \in ActVals,
        S \in SmallSubsets(Cells(img_height, w, c), MaxPatch)}

\* Image arrays of shape (img_height, w, 3).
Arrays(w) ==
    {Patch(img_height, w, 3, 0, S, v) :
        v \in ArrayVals, S \in SmallSubsets(Cells(img_height, w, 3), MaxPatch)}

\* The tensors the second argument is drawn from, besides the first argument
\* itself: a flat one and one with a single cell changed.
Others(w, c) ==
    {Flat(img_height, w, c, 0),
     Patch(img_height, w, c, 6, {<<1, 1, 1>>}, 0)}

\* x with the pixels at row-major positions a and b exchanged (all channels
\* of a pixel move together).
SwapPositions(x, a, b) ==
    LET w == Width(x)
        src(n) == IF n = a THEN b ELSE IF n = b THEN a ELSE n
        at(n) == x[((n - 1) \div w) + 1][((n - 1) % w) + 1]
    IN  Tuple2([r \in 1..Height(x) |-> [s \in 1..w |-> at(src((r - 1) * w + s))]])

\* x with its height and width axes exchanged: tf.transpose(x, (1, 0, 2)).
AxisSwap(x) ==
    Tuple2([s \in 1..Width(x) |-> [r \in 1..Height(x) |-> x[r][s]]])

\* Spatial rearrangements of x: the exchanges of two positions that follow
\* each other in row-major order (they generate every permutation of the
\* positions, and the drawn tensors are closed under permutations) and the
\* axis swap.
Rearrangements(x) ==
    {SwapPositions(x, a, a + 1) : a \in 1..(Height(x) * Width(x) - 1)}
    \cup {AxisSwap(x)}

IsActivation(x) ==
    \A r \in 1..Height(x) : \A s \in 1..Width(x) : \A k \in 1..Channels(x) :
        x[r][s][k] \in ActVals

\* The picture of shape (h, w, 3) with pixel b everywhere, except pixel v at
\* the positions of S.
PixelPatch(h, w, b, S, v) ==
    Tuple3([r \in 1..h |-> [s \in 1..w |-> IF <<r, s>> \in S THEN v ELSE b]])

\* Picture files of the size of the generated picture whose pixels are Dark
\* or Light: all of one kind but for at most MaxPatch pixels.
Pictures(w) ==
    {PixelPatch(img_height, w, b, S, v) :
        b \in {Dark, Light}, v \in {Dark, Light},
        S \in SmallSubsets((1..img_height) \X (1..w), MaxPatch)}

\* The pictures the style image is drawn from.
StylePictures(w) ==
    {PixelPatch(img_height, w, Light, {}, Light),
     PixelPatch(img_height, w, Light, {<<1, 1>>}, Dark)}

\* Byte values at the ends and inside the range of a channel.
ByteVals == {0, 1, 127, 254, 255}

\* Picture files whose channel values are any bytes: a background with at
\* most MaxPatch cells changed, and for every byte a picture whose cells run
\* through the bytes from it on in steps of 37.
BytePictures(w) ==
    {Patch(img_height, w, 3, b, S, v) :
        b \in ByteVals, v \in ByteVals,
        S \in SmallSubsets(Cells(img_height, w, 3), MaxPatch)}
    \cup {Tuple3([r \in 1..img_height |-> [s \in 1..w |-> [k \in 1..3 |->
              (first + 37 * (((r - 1) * w + (s - 1)) * 3 + (k - 1))) % 256]]]) :
          first \in 0..255}

FnInit ==
    /\ out = 0
    /\ img_width \in FnWidths
    /\ \/ /\ fn = "input"
          /\ \E c \in 1..MaxChannels :
                /\ arg1 \in Activations(img_width, c)
                /\ arg2 \in {arg1} \cup Others(img_width, c)
          /\ base_image = <<>>
          /\ style_reference_image = <<>>
          /\ combination_image = <<>>
       \/ /\ fn = "input"
          /\ arg1 \in Arrays(img_width)
          /\ arg2 = arg1
          /\ base_image = <<>>
          /\ style_reference_image = <<>>
          /\ combination_image = <<>>
       \* a picture file, to be preprocessed
       \/ /\ fn = "picture"
          /\ arg1 \in BytePictures(img_width)
          /\ arg2 = arg1
          /\ base_image = <<>>
          /\ style_reference_image = <<>>
          /\ combination_image = <<>>
       \* the three images of the notebook, preprocessed
       \/ /\ fn = "images"
          /\ \E generated \in Pictures(img_width) :
                /\ combination_image = preprocess_image(generated)
                /\ base_image \in {combination_image,
                                   preprocess_image(PixelPatch(img_height, img_width,
                                                               Dark, {}, Dark))}
          /\ \E style \in StylePictures(img_width) :
                style_reference_image = preprocess_image(style)
          /\ arg1 = combination_image
          /\ arg2 = style_reference_image
    \* the run of the notebook has not started
    /\ opt_iterations = 0
    /\ i = 0
    /\ pc = "idle"
    /\ loss = 0
    /\ grads = <<>>
    /\ printed = <<>>
    /\ files = <<>>
    /\ saved_img = <<>>
    /\ regime = "none"

Returns(name, value) ==
    /\ fn = "input"
    /\ fn' = name
    /\ out' = value
    /\ UNCHANGED <<arg1, arg2, img_width>>
    /\ UNCHANGED runVars

CallContentLoss ==
    /\ IsActivation(arg1)
    /\ Returns("content_loss", content_loss(arg1, arg2))

CallGramMatrix ==
    /\ IsActivation(arg1)
    /\ Returns("gram_matrix", gram_matrix(arg1))

CallGramMatrixRearranged ==
    /\ IsActivation(arg1)
    /\ \E y \in Rearrangements(arg1) :
           Returns("gram_matrix_rearranged", <<y # arg1, gram_matrix(y)>>)

CallStyleLoss ==
    /\ IsActivation(arg1)
    /\ Returns("style_loss", style_loss(arg1, arg2))

CallStyleLossRearranged ==
    /\ IsActivation(arg1)
    /\ \E y \in Rearrangements(arg2) :
           Returns("style_loss_rearranged", <<y # arg2, style_loss(arg1, y)>>)

CallTotalVariationLoss ==
    /\ IsActivation(arg1)
    /\ Returns("total_variation_loss", total_variation_loss(arg1))

CallDeprocessImage ==
    /\ Channels(arg1) = 3
    /\ \E nan_byte \in NaNBytes :
           Returns("deprocess_image", deprocess_image(arg1, nan_byte))

\* compute_loss(combination_image, base_image, style_reference_image)
CallComputeLoss ==
    /\ fn = "images"
    /\ fn' = "compute_loss"
    /\ out' = compute_loss(combination_image, base_image, style_reference_image)
    /\ UNCHANGED <<arg1, arg2, img_width>>
    /\ UNCHANGED runVars

\* The call of style_loss that compute_loss makes for one of the style
\* layers: returns the number of the layer and the value.
CallStyleLossOfLayer ==
    /\ fn = "images"
    /\ \E n \in 1..Len(style_layer_names) :
          LET features == feature_extractor(
                              <<base_image, style_reference_image, combination_image>>)
              layer_features == features[style_layer_names[n]]
          IN  /\ fn' = "style_loss_of_layer"
              /\ out' = <<n, style_loss(layer_features[2], layer_features[3])>>
    /\ UNCHANGED <<arg1, arg2, img_width>>
    /\ UNCHANGED runVars

\* deprocess_image(preprocess_image(path)) for a picture file.
CallDeprocessPreprocessed ==
    /\ fn = "picture"
    /\ fn' = "deprocess_preprocessed"
    /\ \E nan_byte \in NaNBytes :
           out' = deprocess_image(preprocess_image(arg1), nan_byte)
    /\ UNCHANGED <<arg1, arg2, img_width>>
    /\ UNCHANGED runVars

\* The images that take the place of the style image or of the content
\* image in a second call.
OtherImages(w) ==
    {preprocess_image(picture) :
        picture \in StylePictures(w) \cup {PixelPatch(img_height, w, Dark, {}, Dark)}}

\* The terms of compute_loss for the three images, for the same images with
\* another style image, and for the same images with another content image.
CallLossTermsOfChangedImages ==
    /\ fn = "images"
    /\ \E other \in OtherImages(img_width) :
          /\ fn' = "loss_terms_of_changed_images"
          /\ out' = <<other,
                      LossTerms(combination_image, base_image, style_reference_image),
                      LossTerms(combination_image, base_image, other),
                      LossTerms(combination_image, other, style_reference_image)>>
    /\ UNCHANGED <<arg1, arg2, img_width>>
    /\ UNCHANGED runVars

FnNext ==
    \/ CallLossTermsOfChangedImages
    \/ CallContentLoss
    \/ CallGramMatrix
    \/ CallGramMatrixRearranged
    \/ CallStyleLoss
    \/ CallStyleLossRearranged
    \/ CallTotalVariationLoss
    \/ CallDeprocessImage
    \/ CallComputeLoss
    \/ CallStyleLossOfLayer
    \/ CallDeprocessPreprocessed

SpecFn == FnInit /\ [][FnNext]_vars

-----------------------------------------------------------------------------
(* SpecSnippets: the model definitions of Chapter14_conclusions *)

\* Largest value given to a name that a snippet uses without defining it
\* (num_classes, num_values, vocab_size).
MaxUnits == 3

\* The code cells of conclusions.ipynb that define and compile a model, in
\* the order of the notebook.  presented_as is what the markdown cell before
\* the snippet says the model is for; the size of the last Dense layer is a
\* number (units_name is "") or a name the snippet leaves open (units is 0);
\* activation is "linear" where the layer is given none, as Keras sets it.
Snippets ==
    <<[name |-> "dense", presented_as |-> "binary classification",
       units |-> 1, units_name |-> "", activation |-> "sigmoid",
       loss |-> "binary_crossentropy"],
      [name |-> "dense", presented_as |-> "single-label categorical classification",
       units |-> 0, units_name |-> "num_classes", activation |-> "softmax",
       loss |-> "categorical_crossentropy"],
      [name |-> "dense", presented_as |-> "multilabel categorical classification",
       units |-> 0, units_name |-> "num_classes", activation |-> "sigmoid",
       loss |-> "binary_crossentropy"],
      [name |-> "dense", presented_as |-> "regression",
       units |-> 0, units_name |-> "num_values", activation |-> "linear",
       loss |-> "mse"],
      [name |-> "convnet", presented_as |-> "categorical classification",
       units |-> 0, units_name |-> "num_classes", activation |-> "softmax",
       loss |-> "categorical_crossentropy"],
      [name |-> "single RNN", presented_as |-> "binary classification",
       units |-> 0, units_name |-> "num_classes", activation |-> "sigmoid",
       loss |-> "binary_crossentropy"],
      [name |-> "stacked RNN", presented_as |-> "binary classification",
       units |-> 0, units_name |-> "num_classes", activation |-> "sigmoid",
       loss |-> "binary_crossentropy"],
      [name |-> "Transformer", presented_as |-> "sequence-to-sequence learning",
       units |-> 0, units_name |-> "vocab_size", activation |-> "softmax",
       loss |-> "categorical_crossentropy"],
      [name |-> "TransformerEncoder", presented_as |-> "binary classification",
       units |-> 1, units_name |-> "", activation |-> "sigmoid",
       loss |-> "binary_crossentropy"]>>

\* The values of the names the snippets leave open.
Bindings ==
    [num_classes : 1..MaxUnits, num_values : 1..MaxUnits, vocab_size : 1..MaxUnits]

\* layers.Dense(units, ...): the number of units of the last layer of a
\* snippet under a binding.
OutputUnits(snippet, binding) ==
    IF snippet.units_name = "" THEN snippet.units ELSE binding[snippet.units_name]

\* A snippet is about to be run under a binding: arg1 is the snippet, arg2
\* the binding.
SnippetInit ==
    /\ fn = "snippet"
    /\ \E n \in 1..Len(Snippets) : arg1 = Snippets[n]
    /\ arg2 \in Bindings
    /\ out = <<>>
    \* the style-transfer notebook is not involved
    /\ img_width = 0
    /\ base_image = <<>>
    /\ style_reference_image = <<>>
    /\ combination_image = <<>>
    /\ opt_iterations = 0
    /\ i = 0
    /\ pc = "idle"
    /\ loss = 0
    /\ grads = <<>>
    /\ printed = <<>>
    /\ files = <<>>
    /\ saved_img = <<>>
    /\ regime = "none"

\* outputs = layers.Dense(...)(x); model = keras.Model(inputs, outputs)
BuildModel ==
    /\ fn = "snippet"
    /\ fn' = "model"
    /\ out' = [output_units      |-> OutputUnits(arg1, arg2),
               output_activation |-> arg1.activation,
               loss              |-> "none"]
    /\ UNCHANGED <<arg1, arg2, img_width>>
    /\ UNCHANGED runVars

\* model.compile(optimizer="rmsprop", loss=...)
CompileModel ==
    /\ fn = "model"
    /\ fn' = "compiled"
    /\ out' = [out EXCEPT !.loss = arg1.loss]
    /\ UNCHANGED <<arg1, arg2, img_width>>
    /\ UNCHANGED runVars

SnippetNext ==
    \/ BuildModel
    \/ CompileModel

SpecSnippets == SnippetInit /\ [][SnippetNext]_vars

-----------------------------------------------------------------------------
(* Properties of the functions, checked under SpecFn *)

Positions(x) == (1..Height(x)) \X (1..Width(x))

\* Every channel of x has one value over the whole image.
IsFlat(x) ==
    \A q \in Positions(x) : x[q[1]][q[2]] = x[1][1]

\* Every channel of x has one value over the image without its bottom-right
\* pixel.
IsFlatButCorner(x) ==
    \A q \in Positions(x) \ {<<Height(x), Width(x)>>} : x[q[1]][q[2]] = x[1][1]

\* C1 as stated: total_variation_loss(x) is zero for every image whose pixels
\* all have the same value per channel, and strictly positive for every image
\* in which two pixels of the same channel differ.
C1_AsStated ==
    fn = "total_variation_loss" =>
        /\ IsFlat(arg1) => out = 0
        /\ ~IsFlat(arg1) => out > 0

\* C1 as amended: total_variation_loss(x) is zero for every flat image, and
\* strictly positive exactly when two pixels of the same channel differ
\* somewhere outside the bottom-right corner pixel; the corner pixel is never
\* read, so an image that is flat but for that pixel has loss zero.
C1_TotalVariationZeroIffFlatButCorner ==
    fn = "total_variation_loss" =>
        /\ IsFlat(arg1) => out = 0
        /\ out = 0 <=> IsFlatButCorner(arg1)
        /\ out >= 0

\* C1 witness: the loss was computed on an image that varies only in its
\* bottom-right corner pixel, and is 0.
C1_Witness ==
    /\ fn = "total_variation_loss"
    /\ ~IsFlat(arg1)
    /\ IsFlatButCorner(arg1)
    /\ out = 0

\* C2: content_loss(base, combination) is 0 when the two tensors are
\* element-wise identical and strictly positive when they differ in at least
\* one element.
C2_ContentLossZeroIffEqual ==
    fn = "content_loss" =>
        /\ arg1 = arg2 => out = 0
        /\ arg1 # arg2 => out > 0

\* C2 witness: content_loss was applied to two tensors that differ.
C2_Witness ==
    /\ fn = "content_loss"
    /\ arg1 # arg2
    /\ out > 0

\* C3 as stated: style_loss(style, combination) is the sum of squared
\* differences of the two Gram matrices divided by 4 x channels^2 x
\* spatial-size^2, with the channel count and the height*width of the
\* activation tensors it is given.
C3_AsStated ==
    fn = "style_loss" =>
        out = SumSquaredDiff(gram_matrix(arg1), gram_matrix(arg2))
                \div (4 * (Channels(arg1) * Channels(arg1))
                        * ((Height(arg1) * Width(arg1)) * (Height(arg1) * Width(arg1))))

\* C4: style_loss(style, combination) is 0 whenever the two activation
\* tensors are element-wise identical.
C4_StyleLossZeroOnEqual ==
    (fn = "style_loss" /\ arg1 = arg2) => out = 0

\* C4 witness: style_loss was applied to two identical tensors whose Gram
\* matrix is not zero.
C4_Witness ==
    /\ fn = "style_loss"
    /\ arg1 = arg2
    /\ gram_matrix(arg1)[1][1] > 0
    /\ out = 0

\* C5: the Gram matrix of a spatially rearranged tensor (two positions
\* exchanged, or the height and width axes swapped) is the Gram matrix of the
\* tensor, and style_loss(s, p(c)) = style_loss(s, c).
C5_RearrangementInvariant ==
    /\ fn = "gram_matrix_rearranged" => out[2] = gram_matrix(arg1)
    /\ fn = "style_loss_rearranged" => out[2] = style_loss(arg1, arg2)

\* C5 witness: style_loss was applied to a rearrangement that moved
\* something, against a style tensor with another Gram matrix.
C5_Witness ==
    /\ fn = "style_loss_rearranged"
    /\ out[1]
    /\ out[2] > 0

\* The sum over all spatial positions of x[.., a] * x[.., b].
ChannelProduct(x, a, b) ==
    SumSeq(Tuple1([n \in 1..(Height(x) * Width(x)) |->
        x[((n - 1) \div Width(x)) + 1][((n - 1) % Width(x)) + 1][a]
        * x[((n - 1) \div Width(x)) + 1][((n - 1) % Width(x)) + 1][b]]))

\* C6: gram_matrix(x) is a channels-by-channels matrix whose entry (a, b) is
\* the sum over all spatial positions of x[.., a] * x[.., b], and it equals
\* its own transpose.
C6_GramEntriesAndSymmetry ==
    fn = "gram_matrix" =>
        /\ Len(out) = Channels(arg1)
        /\ \A a \in 1..Channels(arg1) :
              /\ Len(out[a]) = Channels(arg1)
              /\ \A b \in 1..Channels(arg1) :
                    /\ out[a][b] = ChannelProduct(arg1, a, b)
                    /\ out[a][b] = out[b][a]

\* C6 witness: the Gram matrix of a tensor with two channels was computed,
\* with a non-zero entry off the diagonal.
C6_Witness ==
    /\ fn = "gram_matrix"
    /\ Channels(arg1) >= 2
    /\ out[1][2] > 0
    /\ out[1][1] # out[2][2]

\* C7: every channel value of the array returned by deprocess_image lies in
\* 0..255, for any input array of numbers, also far below 0 or above 255
\* after the means are added.
C7_DeprocessInByteRange ==
    fn = "deprocess_image" =>
        \A r \in 1..Height(out) : \A s \in 1..Width(out) : \A k \in 1..3 :
            out[r][s][k] \in 0..255

\* C7 witness: deprocess_image was applied to an array holding a value far
\* above the range and returned 255 there.
C7_Witness ==
    /\ fn = "deprocess_image"
    /\ \E r \in 1..Height(arg1) : \E s \in 1..Width(arg1) : \E k \in 1..3 :
          /\ arg1[r][s][k] + MeanOffset[k] > 255 * Scale
          /\ out[r][s][4 - k] = 255

\* The activations of the three images at a layer, as compute_loss reads
\* them: entry 1 the content image, 2 the style image, 3 the generated one.
LayerFeatures(layer_name) ==
    feature_extractor(<<base_image, style_reference_image, combination_image>>)[layer_name]

VariationTerm(x, p, q, k) ==
    pow_1_25(square(x[p][q][k] - x[p + 1][q][k])
             + square(x[p][q][k] - x[p][q + 1][k]))

\* The n-th of the (Height - 1) * (Width - 1) * Channels triples (p, q, k)
\* with p below Height and q below Width, each taken once.
VariationIndex(x, n) ==
    <<((n - 1) \div ((Width(x) - 1) * Channels(x))) + 1,
      (((n - 1) \div Channels(x)) % (Width(x) - 1)) + 1,
      ((n - 1) % Channels(x)) + 1>>

\* C17: total_variation_loss(x) is the sum of exactly one term per position
\* (p, q) that is neither in the last row nor in the last column, and per
\* channel k: ((x[p,q] - x[p+1,q])^2 + (x[p,q] - x[p,q+1])^2)^1.25.  The
\* differences between two pixels of the last row, and between two pixels of
\* the last column, enter no term.
C17_OneTermPerInnerPosition ==
    fn = "total_variation_loss" =>
        LET count == (Height(arg1) - 1) * (Width(arg1) - 1) * Channels(arg1)
        IN  /\ \A m, n \in 1..count :
                  m # n => VariationIndex(arg1, m) # VariationIndex(arg1, n)
            /\ \A n \in 1..count :
                  /\ VariationIndex(arg1, n)[1] \in 1..(img_height - 1)
                  /\ VariationIndex(arg1, n)[2] \in 1..(img_width - 1)
            /\ out = SumSeq(Tuple1([n \in 1..count |->
                        VariationTerm(arg1, VariationIndex(arg1, n)[1],
                                            VariationIndex(arg1, n)[2],
                                            VariationIndex(arg1, n)[3])]))

\* C17 witness: the loss was computed on an image with a difference between
\* two pixels of the last row; it is positive and it is exactly the term of
\* the position above the changed pixel.
C17_Witness ==
    /\ fn = "total_variation_loss"
    /\ arg1[img_height][1][1] # arg1[img_height][2][1]
    /\ arg1[1][1][1] = arg1[1][2][1]
    /\ out > 0
    /\ \E q \in 1..2 : out = VariationTerm(arg1, img_height - 1, q, 1)

\* C19: deprocess_image reverses the preprocessing.  For every picture whose
\* channel values are integers in 0..255, adding the means 103.939, 116.779
\* and 123.68 to channels 0, 1 and 2 of the preprocessed image gives back
\* the bytes in BGR order, and deprocess_image of the preprocessed image is
\* the picture itself, each pixel in its original RGB order.
C19_DeprocessReversesPreprocess ==
    fn = "deprocess_preprocessed" =>
        /\ MeanOffset = <<103939, 116779, 123680>>
        /\ \A r \in 1..img_height : \A s \in 1..img_width : \A k \in 1..3 :
              /\ arg1[r][s][k] \in 0..255
              /\ deprocess_image_argument(preprocess_image(arg1))[r][s][k]
                    = arg1[r][s][4 - k] * Scale
        /\ out = arg1

\* C19 witness: the round trip was made on a picture that holds the bytes 0
\* and 255 and whose first pixel differs between its red and blue channels.
C19_Witness ==
    /\ fn = "deprocess_preprocessed"
    /\ arg1[1][1][1] # arg1[1][1][3]
    /\ \E r \in 1..img_height : \E s \in 1..img_width : \E k \in 1..3 :
          arg1[r][s][k] = 0
    /\ \E r \in 1..img_height : \E s \in 1..img_width : \E k \in 1..3 :
          arg1[r][s][k] = 255
    /\ preprocess_image(arg1)[1][1][1] = arg1[1][1][3] * Scale - 103939
    /\ out = arg1

\* C20: the divisor of style_loss is one constant for all five style layers,
\* 4 * 3^2 * (img_height * img_width)^2, made from the dimensions of the
\* input image and a channel count of 3: for every layer n, whatever the
\* channel count and the spatial size of its activations, the value that
\* compute_loss gets is the squared difference of the two Gram matrices
\* divided by that constant; so is the value for any two drawn tensors.
C20_OneDivisorForAllLayers ==
    /\ fn = "style_loss_of_layer" =>
          /\ out[1] \in 1..5
          /\ out[2] = SumSquaredDiff(
                           gram_matrix(LayerFeatures(style_layer_names[out[1]])[2]),
                           gram_matrix(LayerFeatures(style_layer_names[out[1]])[3]))
                       \div (4 * 3 * 3 * (img_height * img_width)
                                       * (img_height * img_width))
    /\ fn = "style_loss" =>
          out = SumSquaredDiff(gram_matrix(arg1), gram_matrix(arg2))
                \div (4 * 3 * 3 * (img_height * img_width) * (img_height * img_width))

\* C20 witness: style_loss was applied to the activations of a style layer
\* that has fewer than 3 channels and a smaller spatial size than the image,
\* with Gram matrices that differ, and returned a positive value.
C20_Witness ==
    /\ fn = "style_loss_of_layer"
    /\ out[1] >= 2
    /\ Channels(LayerFeatures(style_layer_names[out[1]])[2]) < 3
    /\ Height(LayerFeatures(style_layer_names[out[1]])[2])
          * Width(LayerFeatures(style_layer_names[out[1]])[2]) < img_height * img_width
    /\ gram_matrix(LayerFeatures(style_layer_names[out[1]])[2])
          # gram_matrix(LayerFeatures(style_layer_names[out[1]])[3])
    /\ out[2] > 0

-----------------------------------------------------------------------------
(* Properties of the run, checked under Spec *)

\* Number of loop iterations whose body has been executed to its end.
Completed == IF pc = "done" THEN i ELSE i - 1

\* Number of optimizer steps the run must have taken where it stands.
StepsDue == IF pc \in {"report", "done"} THEN i ELSE i - 1

\* The position of the run in the sequence of its steps: three steps per
\* iteration (loss and gradient, optimizer step, report), then the end.
Position ==
    3 * (i - 1) + (CASE pc = "compute" -> 0
                     [] pc = "apply"   -> 1
                     [] pc = "report"  -> 2
                     [] OTHER          -> 3)

\* The position at which the loop has ended.
LastPosition == 3 * iterations

\* C8: the loop terminates after exactly iterations (4000) iterations with
\* exactly one optimizer step per iteration, whatever the loss and the
\* gradient are (also when they are not finite): at every point of the run
\* the optimizer has taken one step for each iteration begun; every step
\* advances the run by one position out of 3 * 4000, so the loop neither
\* repeats nor skips an iteration and cannot go on for ever; and the end is
\* reached only with i = iterations = 4000 and 4000 steps taken.
C8_FixedIterationBudget ==
    /\ [](/\ opt_iterations = StepsDue
          /\ i \in 1..iterations
          /\ Position \in 0..LastPosition
          /\ LastPosition = 3 * 4000
          /\ pc = "done" <=> Position = LastPosition
          /\ pc = "done" => (i = iterations /\ opt_iterations = 4000)
          /\ pc \in {"compute", "apply", "report", "done"})
    /\ [][Position' = Position + 1]_vars

\* C8 witness: a run whose loss is not finite has reached the end of the
\* loop after 4000 steps.
C8_Witness ==
    /\ pc = "done"
    /\ regime = "diverged"
    /\ loss = NaN
    /\ opt_iterations = 4000

\* C9: where the run stands, the files written are exactly those of the
\* completed iterations that are positive multiples of 100, each named with
\* its iteration, in increasing order of iteration; the names are pairwise
\* distinct; at the end of the run iterations / 100 = 40 files have been
\* written, the last of them at the final iteration.
C9_SnapshotFiles ==
    /\ Len(files) = Completed \div 100
    /\ \A n \in 1..Len(files) : files[n] = fname(100 * n)
    /\ \A m \in 1..(Len(files) - 1) : files[m] # files[Len(files)]
    /\ pc = "done" =>
          /\ \A m, n \in 1..Len(files) : m # n => files[m] # files[n]
          /\ Len(files) = iterations \div 100
          /\ Len(files) = 40
          /\ files[Len(files)] = fname(iterations)

\* C9 witness: the run has ended and the last file written is the one of
\* iteration 4000.
C9_Witness ==
    /\ pc = "done"
    /\ Len(files) = 40
    /\ files[40] = fname(4000)
    /\ files[1] = fname(100)

\* C10: no step of the run changes base_image or style_reference_image, and
\* the combination image changes only in the optimizer step.
C10_OnlyCombinationImageChanges ==
    [][/\ base_image' = base_image
       /\ style_reference_image' = style_reference_image
       /\ combination_image' # combination_image => pc = "apply"]_vars

\* C10 witness: at the end of a run the optimizer has changed the combination
\* image, which started as a copy of the content image.
C10_Witness ==
    /\ pc = "done"
    /\ combination_image # base_image
    /\ ~HasNaN(combination_image)

\* For every content file, the width of the generated picture and the
\* preprocessed content image that cells 1 and 2 make of it.
PreprocessedContentFiles ==
    {<<ImgWidth(content),
       preprocess_input(load_img(content, img_height, ImgWidth(content)))>> :
        content \in ContentFiles}

\* C11: before the first optimizer step the combination image is element-wise
\* equal to the preprocessed content image; and it is a copy of its own: in
\* every state of the run, also after the combination image has been updated,
\* base_image is still the preprocessed content image.
C11_StartsAsCopyOfContent ==
    /\ opt_iterations = 0 => combination_image = base_image
    /\ <<img_width, base_image>> \in PreprocessedContentFiles

\* C11 witness: the first optimizer step has changed the combination image
\* and base_image is still the preprocessed content image.
C11_Witness ==
    /\ opt_iterations = 1
    /\ combination_image # base_image
    /\ ~HasNaN(combination_image)
    /\ \E content \in ContentFiles : base_image = preprocess_image(content)

\* C12: the optimizer step taken with s steps behind it uses the rate
\* LearningRate(s), in thousandths.  The step of iteration 1 uses the initial
\* value 100; the rate is strictly positive; it never increases from one step
\* to the next; the rate 100 steps on is 0.96 times the rate (to within 0.01,
\* the precision of the fixed-point table); and the last of the 4000 steps
\* uses a rate within 1 of 20.
C12_LearningRateSchedule ==
    pc \in {"compute", "apply"} =>
        LET rate == LearningRate(opt_iterations)
        IN  /\ i = 1 => (rate = initial_learning_rate /\ rate = 100 * 1000)
            /\ rate > 0
            /\ opt_iterations >= 1 => rate <= LearningRate(opt_iterations - 1)
            /\ opt_iterations >= decay_steps =>
                  LET before == LearningRate(opt_iterations - decay_steps)
                  IN  /\ 100 * rate - 96 * before <= 1000
                      /\ 96 * before - 100 * rate <= 1000
            /\ i = iterations => rate \in (19 * 1000)..(21 * 1000)

\* C12 witness: the last optimizer step of a run is about to be taken, with a
\* rate between 19 and 20 where the first step used 100.
C12_Witness ==
    /\ pc = "apply"
    /\ i = iterations
    /\ opt_iterations = 3999
    /\ LearningRate(opt_iterations) < 20 * 1000
    /\ LearningRate(opt_iterations) > 19 * 1000
    /\ LearningRate(0) = 100 * 1000

\* The combination image before the optimizer step taken last, recovered
\* from the image, the gradient and the rate of that step (an image that is
\* NaN after two or more steps was NaN before the last of them).
ImageBeforeLastStep ==
    IF HasNaN(combination_image) THEN combination_image
    ELSE Tuple3([r \in 1..img_height |-> [s \in 1..img_width |-> [k \in 1..3 |->
             combination_image[r][s][k]
             + (LearningRate(opt_iterations - 1) * grads[r][s][k]) \div 1000]]])

\* The run stands right after the snapshot of a checkpoint iteration.
AfterSnapshot ==
    /\ Completed >= 1
    /\ Completed % 100 = 0
    /\ pc \in {"compute", "done"}

\* C15: in every iteration the loss and the gradient are computed on the
\* current combination image, then one optimizer step is applied, then, at a
\* checkpoint, the snapshot is emitted.  When the optimizer step of iteration
\* i is due, i - 1 steps have been taken and (at a checkpoint iteration) the
\* variable loss is the loss of the combination image as it is then; when the
\* report is due, i steps have been taken.  Right after the snapshot of
\* checkpoint i the image saved is the deprocessed combination image after
\* exactly i steps, and the line printed holds i and the loss of the image
\* before the last step, that is after i - 1 steps.
C15_StepOrderAndSnapshotContent ==
    /\ pc = "apply" =>
          /\ opt_iterations = i - 1
          /\ i % 100 = 0 =>
                loss = compute_loss(combination_image, base_image, style_reference_image)
    /\ pc = "report" => opt_iterations = i
    /\ AfterSnapshot =>
          /\ opt_iterations = Completed
          /\ \E nan_byte \in NaNBytes :
                saved_img = deprocess_image(combination_image, nan_byte)
          /\ Len(printed) = Len(files)
          /\ printed[Len(printed)] = <<Completed, loss>>
          /\ loss = compute_loss(ImageBeforeLastStep, base_image, style_reference_image)

\* C15 witness: the snapshot of a checkpoint has been emitted in a run whose
\* image was still moving: the loss printed is that of the image before the
\* last step and differs from the loss of the image saved.
C15_Witness ==
    /\ AfterSnapshot
    /\ loss # NaN
    /\ printed[Len(printed)] = <<Completed, loss>>
    /\ combination_image # ImageBeforeLastStep
    /\ loss = compute_loss(ImageBeforeLastStep, base_image, style_reference_image)
    /\ loss # compute_loss(combination_image, base_image, style_reference_image)

\* C16: emitting a snapshot does not change the combination image: the step
\* that ends an iteration leaves the image as the optimizer step left it,
\* whether the iteration is a checkpoint (a file is written) or not, although
\* deprocess_image adds the means in place to the array it is given.
C16_SnapshotLeavesImage ==
    [][pc = "report" =>
          /\ combination_image' = combination_image
          /\ i % 100 = 0 <=> files' # files]_vars

\* C16 witness: a snapshot has been written from an image that is not NaN;
\* the array deprocess_image worked on differs from the combination image,
\* which is still what the file was made from.
C16_Witness ==
    /\ AfterSnapshot
    /\ ~HasNaN(combination_image)
    /\ deprocess_image_argument(numpy(combination_image).array) # combination_image
    /\ saved_img = deprocess_image(combination_image, 0)
    /\ opt_iterations = 100

\* x is a tensor of shape (h, w, c).
HasShape(x, h, w, c) ==
    /\ Len(x) = h
    /\ \A r \in 1..Len(x) :
          /\ Len(x[r]) = w
          /\ \A s \in 1..Len(x[r]) : Len(x[r][s]) = c

\* C18: in every state of the run the content image, the style image and
\* the combination image have the same shape (img_height, img_width, 3),
\* where img_width is round(original_width * img_height / original_height)
\* of the content file alone; the style file has other dimensions and is
\* resized to these; no optimizer step or snapshot changes the shape of the
\* combination image (also when its values become NaN).
C18_ImagesShareShape ==
    /\ HasShape(base_image, img_height, img_width, 3)
    /\ HasShape(style_reference_image, img_height, img_width, 3)
    /\ HasShape(combination_image, img_height, img_width, 3)
    /\ \E content \in ContentFiles :
          img_width = Round(Width(content) * img_height, Height(content))

\* C18 witness: optimizer steps and a snapshot have been made in a run whose
\* content file and style file both have dimensions other than those of the
\* generated picture, and differ from each other in their aspect ratio.
C18_Witness ==
    /\ AfterSnapshot
    /\ opt_iterations >= 100
    /\ combination_image # base_image
    /\ HasShape(combination_image, img_height, img_width, 3)
    /\ HasShape(style_reference_image, img_height, img_width, 3)
    /\ \E content \in ContentFiles :
          /\ base_image = preprocess_image(content)
          /\ Height(content) # img_height
          /\ Width(content) # img_width
          /\ \A style \in StyleFiles :
                /\ Height(style) # img_height
                /\ Width(style) # img_width
                /\ Width(style) * Height(content) # Width(content) * Height(style)

\* C22: in iteration 1 the content term of the loss is exactly 0, the
\* combination image being still equal to the content image, and the loss
\* computed first is the sum of the style terms plus the total variation
\* term.
C22_FirstLossHasNoContentTerm ==
    (i = 1 /\ pc = "apply") =>
        LET terms == LossTerms(combination_image, base_image, style_reference_image)
        IN  /\ combination_image = base_image
            /\ terms[1] = 0
            /\ loss = SumSeq(terms[2]) + terms[3]

\* C22 witness: the first loss has been computed; it is positive, with a
\* positive style part and a positive total variation part, and the content
\* term would be positive if the combination image were the style image.
C22_Witness ==
    /\ i = 1
    /\ pc = "apply"
    /\ loss > 0
    /\ SumSeq(LossTerms(combination_image, base_image, style_reference_image)[2]) > 0
    /\ LossTerms(combination_image, base_image, style_reference_image)[3] > 0
    /\ LossTerms(style_reference_image, base_image, style_reference_image)[1] > 0

-----------------------------------------------------------------------------
(* Property of the model snippets, checked under SpecSnippets *)

\* C14 as stated: every model presented as binary classification ends with a
\* Dense layer with a single unit and sigmoid activation and is compiled
\* with the binary_crossentropy loss.
C14_AsStated ==
    (fn = "compiled" /\ arg1.presented_as = "binary classification") =>
        /\ out.output_units = 1
        /\ out.output_activation = "sigmoid"
        /\ out.loss = "binary_crossentropy"

====
